---- MODULE Spec2Model ----
(***************************************************************************)
(* State machine of the ConfessionVault contract (contracts/ConfessionVault *)
(* .sol): a rate-limited, append-only ledger of confessions with per-voter  *)
(* upvote deduplication and an owner-controlled pause switch.               *)
(*                                                                          *)
(* Every external function is one action.  A call either passes all its     *)
(* require checks and applies its effects, or reverts: the EVM then rolls   *)
(* back every write of the call, so a reverting call leaves the storage and *)
(* the event log as they were.  The variable result records the outcome of  *)
(* the transaction executed by the step just taken.                         *)
(*                                                                          *)
(* The widths of the integers (uint256 counters and timestamps, uint32      *)
(* voteCount, euint32 encryptedVotes, the uint64 cast of block.timestamp)   *)
(* are not modelled: with at most Cardinality(Addresses) votes per          *)
(* confession and the timestamps of Times no value comes near 2^32, so no   *)
(* checked operation overflows and no wrapping operation wraps.             *)
(***************************************************************************)
EXTENDS Integers, Sequences, FiniteSets, TLC

VARIABLES
    confessions,         \* mapping(uint256 => Confession)
    hasUpvoted,          \* mapping(uint256 => mapping(address => bool))
    lastSubmissionTime,  \* mapping(address => uint256)
    confessionCount,     \* uint256
    rateLimitCooldown,   \* uint256
    paused,              \* bool
    owner,               \* Ownable._owner
    events,              \* the log of emitted events, oldest first
    now,                 \* block.timestamp of the block being executed
    result,              \* outcome of the transaction of the last step
    createPage,          \* per client: the state of its create page
    localStorage,        \* per client: the localStorage of its browser
    card                 \* per client and confession: the state of its ConfessionCard

ledger == <<confessions, hasUpvoted, lastSubmissionTime, confessionCount,
            rateLimitCooldown, paused, owner, events>>

\* the state of the web client
frontend == <<createPage, localStorage, card>>

vars == <<confessions, hasUpvoted, lastSubmissionTime, confessionCount,
          rateLimitCooldown, paused, owner, events, now, result,
          createPage, localStorage, card>>

----------------------------------------------------------------------------
(* Bounds of the exploration *)

MaxConfessions == 2

MaxEvents == 4

MaxOwnerChanges == 1

(* Program constants *)

DefaultCooldown == 300

MaxCooldown == 3600

(* Input domains *)

ZeroAddress == "0x0"

Deployer == "deployer"

Addresses == {Deployer, "alice"}

Ids == 0 .. (MaxConfessions + 1)

Messages == {<< >>, <<7>>}

CIDs == {5}

Cooldowns == {0, 3600, 3601}

Times == {0, 300, 600}

----------------------------------------------------------------------------
(* Value types of the contract *)

\* FHE.asEuint32(v): the ciphertext of v, modelled by its plaintext
FHEasEuint32(v) == [plain |-> v]

\* mutant of FHEadd: the sum is dropped and the old ciphertext kept
FHEadd_keep(a, b) == a

\* FHE.add(a, b) on euint32: addition under encryption
FHEadd(a, b) == [plain |-> a.plain + b.plain]

\* test-only decryption oracle
Decrypt(c) == c.plain

\* the value every key of the confessions mapping holds before it is written;
\* the zero handle of an euint32 is kept apart from the ciphertext of 0
EmptyConfession ==
    [message |-> << >>, encryptedVotes |-> [plain |-> 0], voteCount |-> 0,
     createdAt |-> 0, author |-> ZeroAddress, ipfsCID |-> 0, exists |-> FALSE]

Event(name, id, who, ts, val, flag) ==
    [name |-> name, id |-> id, who |-> who, ts |-> ts, val |-> val, flag |-> flag]

ConfessionSubmitted(id, author, ts) ==
    Event("ConfessionSubmitted", id, author, ts, 0, FALSE)

\* mutant of ConfessionUpvoted: the event does not carry block.timestamp
ConfessionUpvoted_noTime(id, voter, ts) ==
    Event("ConfessionUpvoted", id, voter, 0, 0, FALSE)

ConfessionUpvoted(id, voter, ts) ==
    Event("ConfessionUpvoted", id, voter, ts, 0, FALSE)

RateLimitUpdated(newCooldown) ==
    Event("RateLimitUpdated", 0, ZeroAddress, 0, newCooldown, FALSE)

ContractPaused(isPaused) ==
    Event("ContractPaused", 0, ZeroAddress, 0, 0, isPaused)

\* Ownable: OwnershipTransferred(previousOwner, newOwner); the previous owner
\* is not needed by any property and is left out of the record
OwnershipTransferred(newOwner) ==
    Event("OwnershipTransferred", 0, newOwner, 0, 0, FALSE)

\* a React state or localStorage entry that holds no value
Null == "null"

\* the create page: the values kept until the transaction is confirmed, and
\* the transaction of useConfessionVault ("none", "sent", "success", "error")
IdleCreatePage ==
    [pendingCustomName |-> Null, pendingCategory |-> Null, tx |-> "none"]

\* the keys customName_<id>, category_<id> and customName_<address>
EmptyStorage ==
    [customNameById |-> [i \in Ids |-> Null],
     categoryById |-> [i \in Ids |-> Null],
     customNameByAuthor |-> [a \in Addresses |-> Null]]

\* useState(confession.hasUpvoted || false), useState(false),
\* useState(confession.decryptedVotes || 0), and the last toast shown
NewCard(hasUpvotedProp, decryptedVotes) ==
    [isUpvoted |-> hasUpvotedProp, isUpvoting |-> FALSE,
     localVoteCount |-> decryptedVotes, toast |-> Null]

Call(op, caller, id, val, target, status, ret) ==
    [op |-> op, caller |-> caller, id |-> id, val |-> val, target |-> target,
     status |-> status, ret |-> ret]

NoCall == Call("none", ZeroAddress, 0, 0, ZeroAddress, "none", 0)

----------------------------------------------------------------------------
(* Modifiers and require conditions *)

\* mutant of notPaused: the modifier checks nothing
notPaused_open == TRUE

\* modifier notPaused: require(!paused, "Contract is paused")
notPaused == ~paused

\* mutant of onlyOwner: any caller passes
onlyOwner_anyone(caller) == TRUE

\* Ownable.onlyOwner: reverts with OwnableUnauthorizedAccount unless the
\* caller is the owner
onlyOwner(caller) == caller = owner

\* mutant of RateLimitElapsed: one rate limit shared by all senders
RateLimitElapsed_global(caller) ==
    \A a \in Addresses : now >= lastSubmissionTime[a] + rateLimitCooldown

\* mutant of RateLimitElapsed: the initial cooldown is used instead of the
\* configured one
RateLimitElapsed_default(caller) ==
    now >= lastSubmissionTime[caller] + DefaultCooldown

\* mutant of RateLimitElapsed: strict comparison
RateLimitElapsed_strict(caller) ==
    now > lastSubmissionTime[caller] + rateLimitCooldown

\* require(block.timestamp >= lastSubmissionTime[msg.sender] + rateLimitCooldown)
RateLimitElapsed(caller) == now >= lastSubmissionTime[caller] + rateLimitCooldown

\* mutant of submitConfessionCheck: the message is checked before the pause
submitConfessionCheck_inputFirst(caller, message) ==
    IF ~(Len(message) > 0) THEN "InvalidInput"
    ELSE IF ~notPaused THEN "Paused"
    ELSE IF ~RateLimitElapsed(caller) THEN "RateLimited"
    ELSE "ok"

\* mutant of submitConfessionCheck: the length limits of the client (10 to 500
\* characters) are enforced by the contract too
submitConfessionCheck_clientRules(caller, message) ==
    IF ~notPaused THEN "Paused"
    ELSE IF ~(Len(message) >= 10 /\ Len(message) <= 500) THEN "InvalidInput"
    ELSE IF ~RateLimitElapsed(caller) THEN "RateLimited"
    ELSE "ok"

\* the outcome of submitConfession's checks, in the order the code makes them
submitConfessionCheck(caller, message) ==
    IF ~notPaused THEN "Paused"
    ELSE IF ~(Len(message) > 0) THEN "InvalidInput"
    ELSE IF ~RateLimitElapsed(caller) THEN "RateLimited"
    ELSE "ok"

\* mutant of upvoteCheck: the author may not upvote the own confession
upvoteCheck_noSelf(caller, id) ==
    IF ~notPaused THEN "Paused"
    ELSE IF ~confessions[id].exists THEN "NotFound"
    ELSE IF hasUpvoted[id][caller] THEN "AlreadyVoted"
    ELSE IF confessions[id].author = caller THEN "Unauthorized"
    ELSE "ok"

\* mutant of upvoteCheck: the double-vote check is missing
upvoteCheck_noDedup(caller, id) ==
    IF ~notPaused THEN "Paused"
    ELSE IF ~confessions[id].exists THEN "NotFound"
    ELSE "ok"

\* the outcome of upvote's checks
upvoteCheck(caller, id) ==
    IF ~notPaused THEN "Paused"
    ELSE IF ~confessions[id].exists THEN "NotFound"
    ELSE IF hasUpvoted[id][caller] THEN "AlreadyVoted"
    ELSE "ok"

\* mutant of updateRateLimitCheck: the bound itself is rejected
updateRateLimitCheck_strict(caller, newCooldown) ==
    IF ~onlyOwner(caller) THEN "Unauthorized"
    ELSE IF ~(newCooldown < MaxCooldown) THEN "InvalidInput"
    ELSE "ok"

\* the outcome of updateRateLimit's checks
updateRateLimitCheck(caller, newCooldown) ==
    IF ~onlyOwner(caller) THEN "Unauthorized"
    ELSE IF ~(newCooldown <= MaxCooldown) THEN "InvalidInput"
    ELSE "ok"

\* mutant of updateIPFSCIDCheck: the author check is missing
updateIPFSCIDCheck_anyone(caller, id) ==
    IF ~confessions[id].exists THEN "NotFound"
    ELSE "ok"

\* mutant of updateIPFSCIDCheck: the function carries notPaused
updateIPFSCIDCheck_gated(caller, id) ==
    IF ~notPaused THEN "Paused"
    ELSE IF ~confessions[id].exists THEN "NotFound"
    ELSE IF ~(confessions[id].author = caller) THEN "Unauthorized"
    ELSE "ok"

\* the outcome of updateIPFSCID's checks
updateIPFSCIDCheck(caller, id) ==
    IF ~confessions[id].exists THEN "NotFound"
    ELSE IF ~(confessions[id].author = caller) THEN "Unauthorized"
    ELSE "ok"

\* mutant of ownerOnlyCheck: the onlyOwner modifier is missing
ownerOnlyCheck_missing(caller) == "ok"

\* the outcome of a function guarded by onlyOwner alone
ownerOnlyCheck(caller) ==
    IF ~onlyOwner(caller) THEN "Unauthorized" ELSE "ok"

\* the outcome of Ownable.transferOwnership's checks
transferOwnershipCheck(caller, newOwner) ==
    IF ~onlyOwner(caller) THEN "Unauthorized"
    ELSE IF newOwner = ZeroAddress THEN "InvalidOwner"
    ELSE "ok"

\* room left in the bounded event log
CanEmit == Len(events) < MaxEvents

\* the number of ownership changes since construction
OwnerChanges ==
    Cardinality({k \in 2 .. Len(events) : events[k].name = "OwnershipTransferred"})

\* room left for one more ownership change
CanChangeOwner == CanEmit /\ OwnerChanges < MaxOwnerChanges

----------------------------------------------------------------------------
(* Construction *)

\* a client that has just opened the application: nothing pending on the
\* create page, an empty localStorage, cards not yet filled from the ledger
InitFrontend ==
    /\ createPage = [c \in Addresses |-> IdleCreatePage]
    /\ localStorage = [c \in Addresses |-> EmptyStorage]
    /\ card = [c \in Addresses |-> [i \in Ids |-> NewCard(FALSE, 0)]]

\* mutant of Init: the contract is deployed with the pause switched on
Init_paused ==
    /\ confessions = [i \in Ids |-> EmptyConfession]
    /\ hasUpvoted = [i \in Ids |-> [a \in Addresses |-> FALSE]]
    /\ lastSubmissionTime = [a \in Addresses |-> 0]
    /\ confessionCount = 0
    /\ rateLimitCooldown = DefaultCooldown
    /\ paused = TRUE
    /\ owner = Deployer
    /\ events = << OwnershipTransferred(Deployer) >>
    /\ now \in Times
    /\ result = NoCall
    /\ InitFrontend

Init ==
    /\ confessions = [i \in Ids |-> EmptyConfession]
    /\ hasUpvoted = [i \in Ids |-> [a \in Addresses |-> FALSE]]
    /\ lastSubmissionTime = [a \in Addresses |-> 0]
    /\ confessionCount = 0
    /\ rateLimitCooldown = DefaultCooldown
    /\ paused = FALSE
    /\ owner = Deployer
    /\ events = << OwnershipTransferred(Deployer) >>
    /\ now \in Times
    /\ result = NoCall
    /\ InitFrontend

----------------------------------------------------------------------------
(* Transactions *)

\* a later block: block.timestamp never decreases, no transaction runs
Tick ==
    /\ \E t \in Times : t > now /\ now' = t
    /\ result' = NoCall
    /\ UNCHANGED ledger

\* mutant of NewId: the counter is read before it is incremented
NewId_stale == confessionCount

\* confessionCount++; uint256 id = confessionCount
NewId == confessionCount + 1

\* mutant of submitConfession: the rate-limit tracker is written before the
\* checks and a rejected call returns 0 instead of reverting
submitConfession_noRevert(caller, message) ==
    LET status == submitConfessionCheck(caller, message)
        id == NewId
    IN  /\ status = "ok" => (confessionCount < MaxConfessions /\ CanEmit)
        /\ lastSubmissionTime' = [lastSubmissionTime EXCEPT ![caller] = now]
        /\ IF status = "ok"
           THEN /\ confessionCount' = id
                /\ confessions' = [confessions EXCEPT ![id] =
                       [message |-> message,
                        encryptedVotes |-> FHEasEuint32(0),
                        voteCount |-> 0,
                        createdAt |-> now,
                        author |-> caller,
                        ipfsCID |-> 0,
                        exists |-> TRUE]]
                /\ events' = Append(events, ConfessionSubmitted(id, caller, now))
                /\ UNCHANGED <<hasUpvoted, rateLimitCooldown, paused, owner>>
           ELSE UNCHANGED <<confessions, hasUpvoted, confessionCount,
                            rateLimitCooldown, paused, owner, events>>
        /\ result' = Call("submitConfession", caller, 0, Len(message), ZeroAddress,
                          status, IF status = "ok" THEN id ELSE 0)
        /\ UNCHANGED now

\* mutant of submitConfession: the counter is not incremented, so the next
\* submission is stored under the same id
submitConfession_noIncrement(caller, message) ==
    LET status == submitConfessionCheck(caller, message)
        id == NewId
    IN  /\ status = "ok" => (confessionCount < MaxConfessions /\ CanEmit)
        /\ IF status = "ok"
           THEN /\ confessions' = [confessions EXCEPT ![id] =
                       [message |-> message,
                        encryptedVotes |-> FHEasEuint32(0),
                        voteCount |-> 0,
                        createdAt |-> now,
                        author |-> caller,
                        ipfsCID |-> 0,
                        exists |-> TRUE]]
                /\ lastSubmissionTime' = [lastSubmissionTime EXCEPT ![caller] = now]
                /\ events' = Append(events, ConfessionSubmitted(id, caller, now))
                /\ UNCHANGED <<hasUpvoted, confessionCount, rateLimitCooldown,
                               paused, owner>>
           ELSE UNCHANGED ledger
        /\ result' = Call("submitConfession", caller, 0, Len(message), ZeroAddress,
                          status, IF status = "ok" THEN id ELSE 0)
        /\ UNCHANGED now

submitConfession(caller, message) ==
    LET status == submitConfessionCheck(caller, message)
        id == NewId
    IN  /\ status = "ok" => (confessionCount < MaxConfessions /\ CanEmit)
        /\ IF status = "ok"
           THEN /\ confessionCount' = id
                /\ confessions' = [confessions EXCEPT ![id] =
                       [message |-> message,
                        encryptedVotes |-> FHEasEuint32(0),
                        voteCount |-> 0,
                        createdAt |-> now,
                        author |-> caller,
                        ipfsCID |-> 0,
                        exists |-> TRUE]]
                /\ lastSubmissionTime' = [lastSubmissionTime EXCEPT ![caller] = now]
                /\ events' = Append(events, ConfessionSubmitted(id, caller, now))
                /\ UNCHANGED <<hasUpvoted, rateLimitCooldown, paused, owner>>
           ELSE UNCHANGED ledger
        /\ result' = Call("submitConfession", caller, 0, Len(message), ZeroAddress,
                          status, IF status = "ok" THEN id ELSE 0)
        /\ UNCHANGED now

\* mutant of upvote: a vote also starts the voter's submission cooldown
upvote_rateLimited(caller, id) ==
    LET status == upvoteCheck(caller, id)
        one == FHEasEuint32(1)
        newVotes == FHEadd(confessions[id].encryptedVotes, one)
    IN  /\ status = "ok" => CanEmit
        /\ IF status = "ok"
           THEN /\ confessions' = [confessions EXCEPT
                       ![id].encryptedVotes = newVotes,
                       ![id].voteCount = @ + 1]
                /\ hasUpvoted' = [hasUpvoted EXCEPT ![id][caller] = TRUE]
                /\ lastSubmissionTime' = [lastSubmissionTime EXCEPT ![caller] = now]
                /\ events' = Append(events, ConfessionUpvoted(id, caller, now))
                /\ UNCHANGED <<confessionCount, rateLimitCooldown, paused, owner>>
           ELSE UNCHANGED ledger
        /\ result' = Call("upvote", caller, id, 0, ZeroAddress, status, 0)
        /\ UNCHANGED now

upvote(caller, id) ==
    LET status == upvoteCheck(caller, id)
        one == FHEasEuint32(1)
        newVotes == FHEadd(confessions[id].encryptedVotes, one)
    IN  /\ status = "ok" => CanEmit
        /\ IF status = "ok"
           THEN /\ confessions' = [confessions EXCEPT
                       ![id].encryptedVotes = newVotes,
                       ![id].voteCount = @ + 1]
                /\ hasUpvoted' = [hasUpvoted EXCEPT ![id][caller] = TRUE]
                /\ events' = Append(events, ConfessionUpvoted(id, caller, now))
                /\ UNCHANGED <<lastSubmissionTime, confessionCount,
                               rateLimitCooldown, paused, owner>>
           ELSE UNCHANGED ledger
        /\ result' = Call("upvote", caller, id, 0, ZeroAddress, status, 0)
        /\ UNCHANGED now

updateRateLimit(caller, newCooldown) ==
    LET status == updateRateLimitCheck(caller, newCooldown)
    IN  /\ status = "ok" => CanEmit
        /\ IF status = "ok"
           THEN /\ rateLimitCooldown' = newCooldown
                /\ events' = Append(events, RateLimitUpdated(newCooldown))
                /\ UNCHANGED <<confessions, hasUpvoted, lastSubmissionTime,
                               confessionCount, paused, owner>>
           ELSE UNCHANGED ledger
        /\ result' = Call("updateRateLimit", caller, 0, newCooldown, ZeroAddress,
                          status, 0)
        /\ UNCHANGED now

\* mutant of togglePause: the flag is set instead of negated
togglePause_set(caller) ==
    LET status == ownerOnlyCheck(caller)
    IN  /\ status = "ok" => CanEmit
        /\ IF status = "ok"
           THEN /\ paused' = TRUE
                /\ events' = Append(events, ContractPaused(TRUE))
                /\ UNCHANGED <<confessions, hasUpvoted, lastSubmissionTime,
                               confessionCount, rateLimitCooldown, owner>>
           ELSE UNCHANGED ledger
        /\ result' = Call("togglePause", caller, 0, 0, ZeroAddress, status, 0)
        /\ UNCHANGED now

togglePause(caller) ==
    LET status == ownerOnlyCheck(caller)
    IN  /\ status = "ok" => CanEmit
        /\ IF status = "ok"
           THEN /\ paused' = ~paused
                /\ events' = Append(events, ContractPaused(~paused))
                /\ UNCHANGED <<confessions, hasUpvoted, lastSubmissionTime,
                               confessionCount, rateLimitCooldown, owner>>
           ELSE UNCHANGED ledger
        /\ result' = Call("togglePause", caller, 0, 0, ZeroAddress, status, 0)
        /\ UNCHANGED now

emergencyPause(caller) ==
    LET status == ownerOnlyCheck(caller)
    IN  /\ status = "ok" => CanEmit
        /\ IF status = "ok"
           THEN /\ paused' = TRUE
                /\ events' = Append(events, ContractPaused(TRUE))
                /\ UNCHANGED <<confessions, hasUpvoted, lastSubmissionTime,
                               confessionCount, rateLimitCooldown, owner>>
           ELSE UNCHANGED ledger
        /\ result' = Call("emergencyPause", caller, 0, 0, ZeroAddress, status, 0)
        /\ UNCHANGED now

\* mutant of unpause: the flag is set as in emergencyPause
unpause_stuck(caller) ==
    LET status == ownerOnlyCheck(caller)
    IN  /\ status = "ok" => CanEmit
        /\ IF status = "ok"
           THEN /\ paused' = TRUE
                /\ events' = Append(events, ContractPaused(TRUE))
                /\ UNCHANGED <<confessions, hasUpvoted, lastSubmissionTime,
                               confessionCount, rateLimitCooldown, owner>>
           ELSE UNCHANGED ledger
        /\ result' = Call("unpause", caller, 0, 0, ZeroAddress, status, 0)
        /\ UNCHANGED now

unpause(caller) ==
    LET status == ownerOnlyCheck(caller)
    IN  /\ status = "ok" => CanEmit
        /\ IF status = "ok"
           THEN /\ paused' = FALSE
                /\ events' = Append(events, ContractPaused(FALSE))
                /\ UNCHANGED <<confessions, hasUpvoted, lastSubmissionTime,
                               confessionCount, rateLimitCooldown, owner>>
           ELSE UNCHANGED ledger
        /\ result' = Call("unpause", caller, 0, 0, ZeroAddress, status, 0)
        /\ UNCHANGED now

updateIPFSCID(caller, id, ipfsCID) ==
    LET status == updateIPFSCIDCheck(caller, id)
    IN  /\ IF status = "ok"
           THEN /\ confessions' = [confessions EXCEPT ![id].ipfsCID = ipfsCID]
                /\ UNCHANGED <<hasUpvoted, lastSubmissionTime, confessionCount,
                               rateLimitCooldown, paused, owner, events>>
           ELSE UNCHANGED ledger
        /\ result' = Call("updateIPFSCID", caller, id, ipfsCID, ZeroAddress,
                          status, 0)
        /\ UNCHANGED now

\* inherited from Ownable
transferOwnership(caller, newOwner) ==
    LET status == transferOwnershipCheck(caller, newOwner)
    IN  /\ status = "ok" => CanChangeOwner
        /\ IF status = "ok"
           THEN /\ owner' = newOwner
                /\ events' = Append(events, OwnershipTransferred(newOwner))
                /\ UNCHANGED <<confessions, hasUpvoted, lastSubmissionTime,
                               confessionCount, rateLimitCooldown, paused>>
           ELSE UNCHANGED ledger
        /\ result' = Call("transferOwnership", caller, 0, 0, newOwner, status, 0)
        /\ UNCHANGED now

\* inherited from Ownable
renounceOwnership(caller) ==
    LET status == ownerOnlyCheck(caller)
    IN  /\ status = "ok" => CanChangeOwner
        /\ IF status = "ok"
           THEN /\ owner' = ZeroAddress
                /\ events' = Append(events, OwnershipTransferred(ZeroAddress))
                /\ UNCHANGED <<confessions, hasUpvoted, lastSubmissionTime,
                               confessionCount, rateLimitCooldown, paused>>
           ELSE UNCHANGED ledger
        /\ result' = Call("renounceOwnership", caller, 0, 0, ZeroAddress, status, 0)
        /\ UNCHANGED now

\* the ids a caller passes: 0 (never assigned) and every assigned id
ArgIds == 0 .. confessionCount

\* a call of one of the functions ConfessionVault declares
VaultCall ==
    \/ \E c \in Addresses, m \in Messages : submitConfession(c, m)
    \/ \E c \in Addresses, i \in ArgIds : upvote(c, i)
    \/ \E c \in Addresses, s \in Cooldowns : updateRateLimit(c, s)
    \/ \E c \in Addresses : togglePause(c)
    \/ \E c \in Addresses : emergencyPause(c)
    \/ \E c \in Addresses : unpause(c)
    \/ \E c \in Addresses, i \in ArgIds, d \in CIDs : updateIPFSCID(c, i, d)

\* a call of one of the two functions ConfessionVault inherits from Ownable
OwnableCall ==
    \/ \E c \in Addresses, n \in Addresses \cup {ZeroAddress} : transferOwnership(c, n)
    \/ \E c \in Addresses : renounceOwnership(c)

Next ==
    \/ Tick /\ UNCHANGED frontend
    \/ VaultCall /\ UNCHANGED frontend

\* the functions ConfessionVault declares, called over successive blocks
Spec == Init /\ [][Next]_vars

NextOwnable ==
    \/ VaultCall /\ UNCHANGED frontend
    \/ OwnableCall /\ UNCHANGED frontend

\* the whole public interface, the inherited functions included, called at
\* one block timestamp (any of Times): the owner checks do not read the clock
SpecOwnable == Init /\ [][NextOwnable]_vars

----------------------------------------------------------------------------
(* View functions: they read the storage and write nothing *)

\* a view call that reverted, and one that returned a value
Reverted(status) == [status |-> status]

Returned(value) == [status |-> "ok", value |-> value]

\* mutant of getConfession: the require on the exists flag is missing
getConfession_unchecked(id) == Returned(confessions[id])

\* require(confessions[_id].exists, "Confession does not exist");
\* return confessions[_id]
getConfession(id) ==
    IF ~confessions[id].exists THEN Reverted("NotFound")
    ELSE Returned(confessions[id])

\* mutant of hasUserUpvoted: the view requires the confession to exist
hasUserUpvoted_checked(id, voter) ==
    IF ~confessions[id].exists THEN Reverted("NotFound")
    ELSE Returned(hasUpvoted[id][voter])

\* return hasUpvoted[_confessionId][_voter]
hasUserUpvoted(id, voter) == Returned(hasUpvoted[id][voter])

\* mutant of getRemainingCooldown: the early return of 0 is missing, and the
\* checked subtraction reverts when the wait is over
getRemainingCooldown_noClamp(user) ==
    LET nextAllowedTime == lastSubmissionTime[user] + rateLimitCooldown
    IN  IF nextAllowedTime - now < 0 THEN Reverted("Panic")
        ELSE Returned(nextAllowedTime - now)

\* nextAllowedTime = lastSubmissionTime[_user] + rateLimitCooldown;
\* if (block.timestamp >= nextAllowedTime) return 0;
\* return nextAllowedTime - block.timestamp
getRemainingCooldown(user) ==
    LET nextAllowedTime == lastSubmissionTime[user] + rateLimitCooldown
    IN  IF now >= nextAllowedTime THEN Returned(0)
        ELSE Returned(nextAllowedTime - now)

----------------------------------------------------------------------------
(* The walk-through of the rate limit and of the vote deduplication *)

\* the two identities of the walk-through: the author, and a voter who is any
\* other identity (the deployer votes like anyone else)
Alice == "alice"

Bob == Deployer

\* the block timestamps of the walk-through
ScenarioTimes == {0, 10, 20, 100, 301}

\* a freshly constructed ledger in a block with timestamp 0
InitScenario == Init /\ now = 0

TickScenario ==
    /\ \E t \in ScenarioTimes : t > now /\ now' = t
    /\ result' = NoCall
    /\ UNCHANGED ledger

NextScenario ==
    \/ TickScenario /\ UNCHANGED frontend
    \/ \E c \in Addresses, m \in Messages :
          submitConfession(c, m) /\ UNCHANGED frontend
    \/ \E c \in Addresses, i \in ArgIds : upvote(c, i) /\ UNCHANGED frontend

\* submissions and upvotes at the timestamps of the walk-through, with the
\* cooldown left at its default
SpecScenario == InitScenario /\ [][NextScenario]_vars

----------------------------------------------------------------------------
(* The IPFS tag of a confession *)

\* bytes32 values passed as _ipfsCID: bytes32(0) and two non-zero values
Tags == {0, 5, 6}

NextTags ==
    \/ \E c \in Addresses, m \in Messages :
          submitConfession(c, m) /\ UNCHANGED frontend
    \/ \E c \in Addresses, i \in ArgIds : upvote(c, i) /\ UNCHANGED frontend
    \/ \E c \in Addresses, i \in ArgIds, d \in Tags :
          updateIPFSCID(c, i, d) /\ UNCHANGED frontend

\* the functions that write a confession record, called at one block
\* timestamp (any of Times), with tags that differ from one call to the next
SpecTags == Init /\ [][NextTags]_vars

----------------------------------------------------------------------------
(* Messages of different lengths *)

\* a bytes value of the given length
Message(n) == [i \in 1 .. n |-> 7]

\* the lengths around the limits the client applies (10 and 500 characters)
Lengths == {0, 1, 9, 10, 500, 501}

NextLengths ==
    \/ Tick /\ UNCHANGED frontend
    \/ \E c \in Addresses, n \in Lengths :
          submitConfession(c, Message(n)) /\ UNCHANGED frontend
    \/ \E c \in Addresses : togglePause(c) /\ UNCHANGED frontend

\* submissions of messages of every length in Lengths over successive blocks,
\* with the pause switched on and off
SpecLengths == Init /\ [][NextLengths]_vars

----------------------------------------------------------------------------
(* The feed of the home page *)

\* mutant of Reverse: the list is left in loading order
Reverse_kept(s) == s

\* Array.prototype.reverse
Reverse(s) == [k \in 1 .. Len(s) |-> s[Len(s) - k + 1]]

\* the ids from 1 to confessionCount whose getConfession read succeeds, in
\* loop order: a failed read is caught and the id skipped
LoadedIds ==
    SelectSeq([i \in 1 .. confessionCount |-> i],
              LAMBDA i : getConfession(i).status = "ok")

\* loadConfessions: the list the page shows, built from reads of one state of
\* the ledger
loadConfessions ==
    Reverse([k \in 1 .. Len(LoadedIds) |->
                [id |-> LoadedIds[k],
                 timestamp |-> getConfession(LoadedIds[k]).value.createdAt]])

----------------------------------------------------------------------------
(* The create page *)

\* the optional display name and category of the form
CustomNames == {Null, "nick"}

Categories == {Null, "projects"}

\* handleSubmit: keep the name and the category, hand the transaction to the
\* wallet; a client submits again only after the page has dealt with the
\* previous transaction
handleSubmit(c, customName, category) ==
    /\ createPage[c].tx \in {"none", "error"}
    /\ createPage' = [createPage EXCEPT ![c] =
           [pendingCustomName |->
                IF customName # Null THEN customName ELSE @.pendingCustomName,
            pendingCategory |->
                IF category # Null THEN category ELSE @.pendingCategory,
            tx |-> "sent"]]
    /\ result' = NoCall
    /\ UNCHANGED <<ledger, now, localStorage, card>>

\* useWaitForTransactionReceipt: the transaction of the client is executed;
\* isSuccess is set when it succeeded, error when it reverted
waitForTransactionReceipt(c) ==
    /\ createPage[c].tx = "sent"
    /\ submitConfession(c, <<7>>)
    /\ createPage' = [createPage EXCEPT ![c].tx =
           IF result'.status = "ok" THEN "success" ELSE "error"]
    /\ UNCHANGED <<localStorage, card>>

\* saveConfessionData, run by the effect on isSuccess: with a pending name or
\* category it stores the name under the address, reads confessionCount
\* (readOk: the read did not throw), stores name and category under the count
\* read and clears the pending values; the page is then left.  The step is
\* taken at the time of the read of confessionCount.
saveConfessionData(c, readOk) ==
    LET page == createPage[c]
        confessionId == confessionCount
        store == localStorage[c]
        byAuthor ==
            IF page.pendingCustomName # Null
            THEN [store.customNameByAuthor EXCEPT ![c] = page.pendingCustomName]
            ELSE store.customNameByAuthor
        nameById ==
            IF readOk /\ page.pendingCustomName # Null
            THEN [store.customNameById EXCEPT ![confessionId] = page.pendingCustomName]
            ELSE store.customNameById
        categoryById ==
            IF readOk /\ page.pendingCategory # Null
            THEN [store.categoryById EXCEPT ![confessionId] = page.pendingCategory]
            ELSE store.categoryById
    IN  /\ page.tx = "success"
        /\ IF page.pendingCustomName # Null \/ page.pendingCategory # Null
           THEN localStorage' = [localStorage EXCEPT ![c] =
                    [customNameById |-> nameById,
                     categoryById |-> categoryById,
                     customNameByAuthor |-> byAuthor]]
           ELSE UNCHANGED localStorage
        /\ createPage' = [createPage EXCEPT ![c] = IdleCreatePage]
        /\ result' = NoCall
        /\ UNCHANGED <<ledger, now, card>>

NextCreate ==
    \/ \E c \in Addresses, n \in CustomNames, g \in Categories :
          handleSubmit(c, n, g)
    \/ \E c \in Addresses : waitForTransactionReceipt(c)
    \/ \E c \in Addresses, readOk \in BOOLEAN : saveConfessionData(c, readOk)

\* clients that submit their confessions through the create page
SpecCreate == Init /\ [][NextCreate]_vars

----------------------------------------------------------------------------
(* The confession card *)

\* useConfessionVault().upvote as seen by its caller: it hands the transaction
\* to wagmi's writeContract and returns; whether a transaction that fails
\* makes the returned promise reject (throws) depends on wagmi and is left
\* open
hookUpvote(status, throws) ==
    IF status # "ok" /\ throws THEN "thrown" ELSE "returned"

\* handleUpvote of the home page, passed to the card as onUpvote:
\* try { await upvote(id) } catch (error) { console.error(error) }
pageHandleUpvote(outcome) ==
    IF outcome = "thrown" THEN "returned" ELSE "returned"

\* the effect that copies the props of a reloaded feed into the card
syncCard(c, id) ==
    /\ getConfession(id).status = "ok"
    /\ card' = [card EXCEPT ![c][id] =
           [@ EXCEPT !.isUpvoted = hasUserUpvoted(id, c).value,
                     !.localVoteCount = getConfession(id).value.voteCount]]
    /\ card' # card
    /\ result' = NoCall
    /\ UNCHANGED <<ledger, now, createPage, localStorage>>

\* the wallet user rejects the transaction: nothing reaches the ledger
walletRejects(c, id) ==
    /\ result' = Call("upvote", c, id, 0, ZeroAddress, "Rejected", 0)
    /\ UNCHANGED <<ledger, now>>

\* handleUpvote of ConfessionCard for a card not marked as upvoted: the
\* transaction is executed by the ledger or rejected in the wallet, and the
\* card takes the branch that the outcome of onUpvote selects
handleUpvote(c, id, throws) ==
    /\ ~card[c][id].isUpvoted
    /\ \/ upvote(c, id)
       \/ walletRejects(c, id)
    /\ LET onUpvote == pageHandleUpvote(hookUpvote(result'.status, throws))
       IN  card' = [card EXCEPT ![c][id] =
               IF onUpvote = "returned"
               THEN [isUpvoted |-> TRUE, isUpvoting |-> FALSE,
                     localVoteCount |-> @.localVoteCount + 1,
                     toast |-> "Upvoted!"]
               ELSE [@ EXCEPT !.isUpvoting = FALSE,
                              !.toast = "Failed to upvote"]]
    /\ UNCHANGED <<createPage, localStorage>>

NextCard ==
    \/ \E c \in Addresses : submitConfession(c, <<7>>) /\ UNCHANGED frontend
    \/ \E c \in Addresses : togglePause(c) /\ UNCHANGED frontend
    \/ \E c \in Addresses, i \in 1 .. confessionCount : syncCard(c, i)
    \/ \E c \in Addresses, i \in 1 .. confessionCount, throws \in BOOLEAN :
          handleUpvote(c, i, throws)

\* clients that upvote through the cards of the feed while confessions are
\* submitted and the owner switches the pause
SpecCard == Init /\ [][NextCard]_vars

----------------------------------------------------------------------------
(* Observations on the event log and on the last transaction *)

IsSubmitted(e) == e.name = "ConfessionSubmitted"

\* the ConfessionSubmitted events, oldest first
Submissions == SelectSeq(events, IsSubmitted)

\* the identities with a ConfessionUpvoted event for confession id
Voters(id) ==
    {events[k].who : k \in {j \in 1 .. Len(events) :
        events[j].name = "ConfessionUpvoted" /\ events[j].id = id}}

\* the number of ConfessionUpvoted events for confession id
UpvoteEvents(id) ==
    Cardinality({j \in 1 .. Len(events) :
        events[j].name = "ConfessionUpvoted" /\ events[j].id = id})

\* the positions of the accepted submissions of caller in the log
SubmissionsOf(caller) ==
    {j \in 1 .. Len(events) :
        events[j].name = "ConfessionSubmitted" /\ events[j].who = caller}

RECURSIVE SetMax(_)
SetMax(S) ==
    LET x == CHOOSE y \in S : TRUE
    IN  IF S = {x} THEN x
        ELSE LET m == SetMax(S \ {x}) IN IF x > m THEN x ELSE m

\* the time of the latest accepted submission of caller
LastAccepted(caller) == events[SetMax(SubmissionsOf(caller))].ts

Failed(r) == r.status \notin {"ok", "none"}

----------------------------------------------------------------------------
(* Claims *)

\* C1: the n-th successful submitConfession returns id n (the ids are 1, 2,
\* 3, ... in call order, without gap or reuse), confessionCount equals the
\* number of successful submissions so far, and a failed submitConfession
\* consumes no id.
C1_SequentialIds ==
    /\ \A n \in 1 .. Len(Submissions) : Submissions[n].id = n
    /\ confessionCount = Len(Submissions)
    /\ result.op = "submitConfession" =>
          IF result.status = "ok"
          THEN /\ result.ret = Len(Submissions)
               /\ events[Len(events)] = ConfessionSubmitted(result.ret, result.caller, now)
               /\ confessions[result.ret].exists
          ELSE result.ret = 0

\* C1 witness: the second successful submission has just returned id 2
C1_Witness ==
    /\ result.op = "submitConfession" /\ result.status = "ok" /\ result.ret = 2
    /\ confessionCount = 2

\* C2: for every confession id, voteCount equals the number of distinct
\* identities whose upvote of that id succeeded, and the decrypted encrypted
\* counter (encrypt(0) at creation, add(counter, encrypt(1)) per upvote) holds
\* the same number.
C2_VoteCount ==
    \A id \in Ids :
        /\ confessions[id].voteCount = Cardinality(Voters(id))
        /\ Decrypt(confessions[id].encryptedVotes) = Cardinality(Voters(id))
        /\ UpvoteEvents(id) = Cardinality(Voters(id))
        /\ Voters(id) = {a \in Addresses : hasUpvoted[id][a]}

\* C2 witness: a confession upvoted by two distinct identities
C2_Witness ==
    \E id \in Ids :
        /\ confessions[id].exists
        /\ Cardinality(Voters(id)) = 2
        /\ confessions[id].voteCount = 2

\* C3: once an upvote by a voter on a confession has succeeded, every later
\* upvote by the same voter on the same confession fails, with AlreadyVoted
\* while the ledger is not paused, and leaves voteCount, the encrypted counter
\* and the upvote relation unchanged.
C3_NoDoubleVote ==
    [][ (result'.op = "upvote" /\ result'.caller \in Voters(result'.id)) =>
           /\ Failed(result')
           /\ ~paused => result'.status = "AlreadyVoted"
           /\ confessions' = confessions
           /\ hasUpvoted' = hasUpvoted
           /\ events' = events ]_vars

\* C3 witness: a second upvote has just been rejected with AlreadyVoted
C3_Witness ==
    /\ result.op = "upvote" /\ result.status = "AlreadyVoted"
    /\ result.caller \in Voters(result.id)
    /\ confessions[result.id].voteCount = 1

\* C4: with the ledger not paused and a non-empty message, a submitConfession
\* at time t2 by a caller whose last accepted submission was at time t1 fails
\* with RateLimited when t2 - t1 < rateLimitCooldown and succeeds when
\* t2 - t1 >= rateLimitCooldown, for the cooldown in force at the call.
C4_RateLimit ==
    [][ (/\ result'.op = "submitConfession"
         /\ ~paused
         /\ result'.val > 0
         /\ SubmissionsOf(result'.caller) # {}) =>
           LET t1 == LastAccepted(result'.caller)
           IN  /\ now - t1 < rateLimitCooldown => result'.status = "RateLimited"
               /\ now - t1 >= rateLimitCooldown => result'.status = "ok" ]_vars

\* C4 witness: a caller whose two accepted submissions lie exactly one cooldown
\* apart has just been rejected with RateLimited
C4_Witness ==
    /\ result.op = "submitConfession" /\ result.status = "RateLimited"
    /\ rateLimitCooldown > 0
    /\ \E i, j \in SubmissionsOf(result.caller) :
          i < j /\ events[j].ts - events[i].ts = rateLimitCooldown

\* a successful call of the step is one of the given operations
OkStep(ops) == result'.op \in ops /\ result'.status = "ok"

\* the step is a submitConfession or upvote call that fails with Paused and
\* changes nothing
RejectedPaused ==
    result'.op \in {"submitConfession", "upvote"} =>
        (result'.status = "Paused" /\ UNCHANGED ledger)

\* C5 as stated: once paused is true, every submitConfession and upvote fails
\* with Paused and changes nothing until unpause is called, whatever other
\* operations (togglePause among them) come before that unpause call.
C5_PausedUntilUnpause ==
    [][ paused =>
           /\ RejectedPaused
           /\ ~OkStep({"unpause"}) => paused' ]_vars

\* C5 amended: while paused is true every submitConfession and upvote fails
\* with Paused and changes nothing, and paused stays true across every
\* operation except a successful unpause or togglePause of the owner.
C5_PausedUntilUnpauseOrToggle ==
    [][ paused =>
           /\ RejectedPaused
           /\ ~OkStep({"unpause", "togglePause"}) => paused' ]_vars

\* C5 witness: with a confession on the ledger and the cooldown changed during
\* the pause, a call has just been rejected with Paused
C5_Witness ==
    /\ paused /\ confessionCount >= 1
    /\ result.op \in {"submitConfession", "upvote"} /\ result.status = "Paused"
    /\ events[Len(events)].name = "RateLimitUpdated"

C7_OwnerImmutable == owner = Deployer

\* C7 amended: owner is the deployer at construction and no function declared
\* by ConfessionVault changes it; it changes only by a successful call of the
\* inherited transferOwnership (to the non-zero address passed) or
\* renounceOwnership (to the zero address), each made by the current owner.
C7_OwnerChangesOnlyByOwnable ==
    /\ owner = Deployer
    /\ [][ /\ result'.op \notin {"transferOwnership", "renounceOwnership"} =>
                owner' = owner
           /\ owner' # owner =>
                /\ result'.status = "ok"
                /\ result'.caller = owner
           /\ OkStep({"transferOwnership"}) =>
                (owner' = result'.target /\ owner' # ZeroAddress)
           /\ OkStep({"renounceOwnership"}) => owner' = ZeroAddress ]_vars

\* C7 witness: the deployer has just handed the ownership to another identity
C7_Witness ==
    /\ result.op = "transferOwnership" /\ result.status = "ok"
    /\ result.caller = Deployer
    /\ owner = "alice"

\* C8: rateLimitCooldown is 300 at construction and at most 3600 in every
\* reachable state; updateRateLimit(s) called by the owner succeeds and sets
\* rateLimitCooldown to s exactly when s <= 3600, and fails with InvalidInput
\* leaving rateLimitCooldown unchanged when s > 3600.
C8_CooldownBound ==
    /\ rateLimitCooldown = 300
    /\ [][ /\ rateLimitCooldown' <= 3600
           /\ (result'.op = "updateRateLimit" /\ result'.caller = owner) =>
                IF result'.val <= 3600
                THEN result'.status = "ok" /\ rateLimitCooldown' = result'.val
                ELSE /\ result'.status = "InvalidInput"
                     /\ rateLimitCooldown' = rateLimitCooldown
           /\ rateLimitCooldown' # rateLimitCooldown =>
                OkStep({"updateRateLimit"}) ]_vars

\* C8 witness: with the cooldown at the accepted maximum of 3600, the owner's
\* updateRateLimit(3601) has just been rejected
C8_Witness ==
    /\ rateLimitCooldown = 3600
    /\ events[Len(events)] = RateLimitUpdated(3600)
    /\ result.op = "updateRateLimit" /\ result.caller = owner
    /\ result.val = 3601 /\ result.status = "InvalidInput"

AdminOps == {"updateRateLimit", "togglePause", "emergencyPause", "unpause"}

\* C9: every admin operation (updateRateLimit, togglePause, emergencyPause,
\* unpause) called by an identity other than the owner fails with Unauthorized
\* and leaves rateLimitCooldown, paused and all other ledger state unchanged,
\* whatever its argument and whatever the current state.
C9_AdminOnlyOwner ==
    [][ (result'.op \in AdminOps /\ result'.caller # owner) =>
           (result'.status = "Unauthorized" /\ UNCHANGED ledger) ]_vars

\* C9 witness: the deployer, no longer the owner, has just been refused an
\* admin operation on a paused ledger
C9_Witness ==
    /\ result.op \in AdminOps /\ result.status = "Unauthorized"
    /\ result.caller = Deployer /\ owner = "alice"
    /\ paused

\* C10: every operation that fails a precondition (Paused, InvalidInput,
\* RateLimited, NotFound, AlreadyVoted, Unauthorized) leaves the whole ledger
\* state unchanged: confessionCount, every confession record, the upvote
\* relation, lastSubmissionTime, rateLimitCooldown, paused and the event log.
C10_FailureChangesNothing ==
    [][ Failed(result') =>
           /\ result'.status \in {"Paused", "InvalidInput", "RateLimited",
                                  "NotFound", "AlreadyVoted", "Unauthorized"}
           /\ confessionCount' = confessionCount
           /\ confessions' = confessions
           /\ hasUpvoted' = hasUpvoted
           /\ lastSubmissionTime' = lastSubmissionTime
           /\ rateLimitCooldown' = rateLimitCooldown
           /\ paused' = paused
           /\ events' = events ]_vars

\* C10 witness: a submission has just been rejected with RateLimited on a
\* ledger that holds a confession and a vote
C10_Witness ==
    /\ result.op = "submitConfession" /\ result.status = "RateLimited"
    /\ confessionCount >= 1
    /\ \E id \in Ids : confessions[id].voteCount >= 1

\* C11: in every reachable state confessions[id].exists is true exactly for
\* the ids with 1 <= id <= confessionCount; getConfession(id) returns the
\* record of the id-th accepted submission for every such id and fails with
\* NotFound for id = 0 and for every id > confessionCount.
C11_ExistsExactlyInRange ==
    \A id \in Ids :
        LET inRange == 1 <= id /\ id <= confessionCount
        IN  /\ confessions[id].exists <=> inRange
            /\ IF inRange
               THEN /\ getConfession(id) = Returned(confessions[id])
                    /\ getConfession(id).value.author = Submissions[id].who
                    /\ getConfession(id).value.createdAt = Submissions[id].ts
                    /\ Len(getConfession(id).value.message) > 0
               ELSE getConfession(id) = Reverted("NotFound")

\* C11 witness: one confession on the ledger, tagged by its author: id 1 is
\* returned, ids 0 and 2 are not found
C11_Witness ==
    /\ confessionCount = 1
    /\ getConfession(1).status = "ok" /\ getConfession(1).value.ipfsCID = 5
    /\ getConfession(0).status = "NotFound"
    /\ getConfession(2).status = "NotFound"

\* the ledger as constructed: no confession, the default cooldown, no
\* submission recorded for anyone
FreshLedger ==
    /\ confessionCount = 0
    /\ rateLimitCooldown = DefaultCooldown
    /\ \A a \in Addresses : lastSubmissionTime[a] = 0

\* the ledger after the first step of the walk-through
AfterFirstSubmission ==
    /\ confessionCount = 1
    /\ rateLimitCooldown = DefaultCooldown
    /\ confessions[1].author = Alice
    /\ confessions[1].createdAt = 0

SubmitBy(caller) ==
    result'.op = "submitConfession" /\ result'.caller = caller /\ result'.val > 0

UpvoteBy(caller, id) ==
    result'.op = "upvote" /\ result'.caller = caller /\ result'.id = id

C13_RemainingCooldown ==
    \A a \in Addresses :
        LET r == getRemainingCooldown(a)
            wait == lastSubmissionTime[a] + rateLimitCooldown - now
        IN  /\ r.status = "ok"
            /\ r.value = IF wait > 0 THEN wait ELSE 0
            /\ ~paused => (r.value = 0 <=> submitConfessionCheck(a, <<7>>) = "ok")
            /\ r.value = 0 <=> RateLimitElapsed(a)
            /\ ~RateLimitElapsed(a) => (r.value > 0 /\ r.value <= rateLimitCooldown)

\* C13 witness: an identity that has submitted is part of the way through a
\* cooldown that was lengthened after its submission
C13_Witness ==
    \E a \in Addresses :
        /\ lastSubmissionTime[a] > 0
        /\ now > lastSubmissionTime[a]
        /\ getRemainingCooldown(a).value > 0
        /\ getRemainingCooldown(a).value < rateLimitCooldown

\* C14: updateIPFSCID(id, tag) succeeds only when confession id exists and the
\* caller is its author, and then overwrites only the ipfsCID of that record;
\* called by any other identity on an existing confession it fails with
\* Unauthorized; so the ipfsCID of a confession is bytes32(0) until its own
\* author sets it and changes by no other call; and repeating the call that
\* has just succeeded leaves the state unchanged.
C14_TagOnlyByAuthor ==
    /\ \A id \in Ids : confessions[id].ipfsCID = 0
    /\ [][ /\ result'.op = "updateIPFSCID" =>
                LET id == result'.id
                    byAuthor == /\ confessions[id].exists
                                /\ confessions[id].author = result'.caller
                IN  /\ result'.status = "ok" <=> byAuthor
                    /\ result'.status = "ok" =>
                          /\ confessions' =
                                [confessions EXCEPT ![id].ipfsCID = result'.val]
                          /\ UNCHANGED <<hasUpvoted, lastSubmissionTime,
                                         confessionCount, rateLimitCooldown,
                                         paused, owner, events>>
                    /\ (confessions[id].exists /\ ~byAuthor) =>
                          (result'.status = "Unauthorized" /\ UNCHANGED ledger)
                    /\ (result.status = "ok" /\ result' = result) =>
                          UNCHANGED ledger
           /\ \A id \in Ids :
                /\ ~confessions'[id].exists => confessions'[id].ipfsCID = 0
                /\ confessions'[id].ipfsCID # confessions[id].ipfsCID =>
                      /\ result'.op = "updateIPFSCID" /\ result'.status = "ok"
                      /\ result'.id = id
                      /\ result'.caller = confessions[id].author
                      /\ confessions'[id].ipfsCID = result'.val ]_vars

\* C14 witness: a confession that carries a vote and a non-zero tag, and
\* another identity has just been refused a change of that tag
C14_Witness ==
    /\ result.op = "updateIPFSCID" /\ result.status = "Unauthorized"
    /\ result.val = 5
    /\ confessions[result.id].ipfsCID = 6
    /\ confessions[result.id].voteCount >= 1

\* the functions of ConfessionVault that emit an event when they succeed
EmittingOps ==
    {"submitConfession", "upvote", "updateRateLimit", "togglePause",
     "emergencyPause", "unpause"}

\* the step keeps the events logged so far, appends exactly one event when it
\* is a successful call of one of ops and none when it is a failed call or no
\* call, and a ConfessionSubmitted or ConfessionUpvoted event carries the id,
\* the caller and the block timestamp of the call that emitted it
EventStream(ops) ==
    /\ Len(events') >= Len(events)
    /\ SubSeq(events', 1, Len(events)) = events
    /\ OkStep(ops) => Len(events') = Len(events) + 1
    /\ (Failed(result') \/ result'.op = "none") => events' = events
    /\ OkStep({"submitConfession"}) =>
          LET e == events'[Len(events')]
          IN  /\ e.name = "ConfessionSubmitted"
              /\ e.id = result'.ret /\ e.who = result'.caller /\ e.ts = now'
    /\ OkStep({"upvote"}) =>
          LET e == events'[Len(events')]
          IN  /\ e.name = "ConfessionUpvoted"
              /\ e.id = result'.id /\ e.who = result'.caller /\ e.ts = now'

\* C15 as stated: the event stream is append-only and every successful
\* mutating call (submitConfession, upvote, updateIPFSCID, updateRateLimit,
\* togglePause, emergencyPause, unpause) appends exactly one event, a failed
\* call none; ConfessionSubmitted carries (id, caller, now) and
\* ConfessionUpvoted carries (confessionId, caller, now).
C15_OneEventPerCall ==
    [][ EventStream(EmittingOps \cup {"updateIPFSCID"}) ]_vars

\* C15 amended: the event stream is append-only; every successful
\* submitConfession, upvote, updateRateLimit, togglePause, emergencyPause and
\* unpause appends exactly one event, a successful updateIPFSCID and every
\* failed call append none; ConfessionSubmitted carries (id, caller, now) and
\* ConfessionUpvoted carries (confessionId, caller, now).
C15_OneEventPerEmittingCall ==
    [][ /\ EventStream(EmittingOps)
        /\ OkStep({"updateIPFSCID"}) => events' = events ]_vars

\* C15 witness: the log holds the events of a submission and of an upvote made
\* in a later block, and the author has just set the tag without an event
C15_Witness ==
    /\ result.op = "updateIPFSCID" /\ result.status = "ok"
    /\ Len(events) = 3
    /\ events[2].name = "ConfessionSubmitted"
    /\ events[3].name = "ConfessionUpvoted" /\ events[3].ts > events[2].ts

\* C16: records are append-only: once confession id exists, its message,
\* createdAt and author keep their value and exists stays true across every
\* later operation (submissions by anyone, upvotes, tag updates, admin
\* operations, later blocks), and confessionCount never decreases.
C16_RecordsAppendOnly ==
    [][ /\ confessionCount' >= confessionCount
        /\ \A id \in Ids :
              confessions[id].exists =>
                  /\ confessions'[id].exists
                  /\ confessions'[id].message = confessions[id].message
                  /\ confessions'[id].createdAt = confessions[id].createdAt
                  /\ confessions'[id].author = confessions[id].author ]_vars

\* C16 witness: after the first confession was created it was upvoted and
\* tagged, and another identity submitted the second confession
C16_Witness ==
    /\ confessionCount = 2
    /\ confessions[1].voteCount >= 1
    /\ confessions[1].ipfsCID = 5
    /\ confessions[2].author # confessions[1].author
    /\ confessions[1].exists /\ confessions[1].message = <<7>>

\* C17: hasUserUpvoted(id, identity) never fails; it returns true exactly for
\* the (id, identity) pairs whose upvote succeeded earlier and false for every
\* other pair, in particular for id = 0 and for every id > confessionCount; so
\* the upvote relation holds no pair whose confession does not exist.
C17_HasUserUpvotedTotal ==
    \A id \in Ids, a \in Addresses :
        /\ hasUserUpvoted(id, a).status = "ok"
        /\ hasUserUpvoted(id, a).value = (a \in Voters(id))
        /\ (id = 0 \/ id > confessionCount) => hasUserUpvoted(id, a) = Returned(FALSE)
        /\ hasUserUpvoted(id, a).value => confessions[id].exists

\* C17 witness: one identity has upvoted confession 1 and the other has not,
\* and nobody has upvoted confession 2
C17_Witness ==
    /\ confessionCount = 2
    /\ \E a, b \in Addresses :
          /\ hasUserUpvoted(1, a) = Returned(TRUE)
          /\ hasUserUpvoted(1, b) = Returned(FALSE)
          /\ hasUserUpvoted(2, a) = Returned(FALSE)
    /\ hasUserUpvoted(3, Deployer) = Returned(FALSE)

\* C18: after the owner has paused the ledger a submitConfession fails with
\* Paused; after the owner's unpause the same call (same caller, non-empty
\* message, cooldown satisfied) succeeds: the call that failed during the pause
\* has not consumed the caller's cooldown, nor does the pause or the unpause.
C18_PauseThenUnpause ==
    [][ /\ OkStep({"emergencyPause"}) => paused'
        /\ (paused /\ result'.op = "submitConfession") =>
              /\ result'.status = "Paused"
              /\ lastSubmissionTime' = lastSubmissionTime
              /\ \A a \in Addresses :
                    (getRemainingCooldown(a))' = getRemainingCooldown(a)
        /\ OkStep({"emergencyPause", "unpause"}) =>
              \A a \in Addresses :
                  (getRemainingCooldown(a))' = getRemainingCooldown(a)
        /\ OkStep({"unpause"}) =>
              /\ ~paused'
              /\ \A a \in Addresses :
                    RateLimitElapsed(a) =>
                        (submitConfessionCheck(a, <<7>>))' = "ok"
        /\ (result.op = "unpause" /\ result.status = "ok" /\ SubmitBy(result'.caller)
              /\ RateLimitElapsed(result'.caller)) =>
              /\ result'.status = "ok"
              /\ confessions'[result'.ret].author = result'.caller ]_vars

\* C18 witness: the ledger was paused, then unpaused, and a submission has
\* just been accepted
C18_Witness ==
    /\ Len(events) = 4
    /\ events[2] = ContractPaused(TRUE)
    /\ events[3] = ContractPaused(FALSE)
    /\ events[4].name = "ConfessionSubmitted"
    /\ result.op = "submitConfession" /\ result.status = "ok"

\* C19: rate limits are kept per identity: a successful submitConfession by
\* caller A changes lastSubmissionTime[A] only; for every other identity B
\* lastSubmissionTime[B], getRemainingCooldown(B) and the outcome B's own
\* submitConfession would have are unchanged, and a B that has not submitted
\* yet can submit in the same instant.
C19_RateLimitPerIdentity ==
    [][ OkStep({"submitConfession"}) =>
           LET A == result'.caller
           IN  /\ lastSubmissionTime' = [lastSubmissionTime EXCEPT ![A] = now]
               /\ \A B \in Addresses \ {A} :
                     /\ lastSubmissionTime'[B] = lastSubmissionTime[B]
                     /\ (getRemainingCooldown(B))' = getRemainingCooldown(B)
                     /\ (submitConfessionCheck(B, <<7>>))' =
                            submitConfessionCheck(B, <<7>>)
                     /\ SubmissionsOf(B) = {} =>
                            (submitConfessionCheck(B, <<7>>))' = "ok" ]_vars

\* C19 witness: with a positive cooldown two identities have submitted in the
\* same block, the second one just now
C19_Witness ==
    /\ result.op = "submitConfession" /\ result.status = "ok" /\ result.ret = 2
    /\ rateLimitCooldown > 0
    /\ confessions[1].createdAt = confessions[2].createdAt
    /\ confessions[1].author # confessions[2].author
    /\ getRemainingCooldown(confessions[1].author).value = rateLimitCooldown

\* C20: the only content validation of the ledger is non-emptiness: with the
\* ledger not paused, submitConfession with an empty message fails with
\* InvalidInput, and with the cooldown satisfied every non-empty message is
\* accepted and stored whatever its length, lengths below 10 and above 500
\* included.
C20_OnlyNonEmptiness ==
    [][ (result'.op = "submitConfession" /\ ~paused) =>
           LET n == result'.val
           IN  /\ n = 0 => (result'.status = "InvalidInput" /\ UNCHANGED ledger)
               /\ (n > 0 /\ RateLimitElapsed(result'.caller)) =>
                     /\ result'.status = "ok"
                     /\ confessions'[result'.ret].message = Message(n)
               /\ (n > 0 /\ ~RateLimitElapsed(result'.caller)) =>
                     result'.status = "RateLimited" ]_vars

\* C20 witness: the ledger holds a confession of one byte and one of 501 bytes
C20_Witness ==
    /\ confessionCount = 2
    /\ Len(confessions[1].message) = 1
    /\ Len(confessions[2].message) = 501

\* C21: the state after deployment is Active: confessionCount = 0, paused =
\* false, rateLimitCooldown = 300, owner = deployer, no confession exists, the
\* upvote relation is empty and lastSubmissionTime is 0 for every identity;
\* the ledger stays so until the first call that succeeds.
C21_InitialState ==
    Len(events) = 1 =>
        /\ events[1] = OwnershipTransferred(Deployer)
        /\ confessionCount = 0
        /\ ~paused
        /\ rateLimitCooldown = 300
        /\ owner = Deployer
        /\ \A id \in Ids :
              /\ ~confessions[id].exists
              /\ getConfession(id) = Reverted("NotFound")
              /\ \A a \in Addresses : hasUserUpvoted(id, a) = Returned(FALSE)
        /\ \A a \in Addresses : lastSubmissionTime[a] = 0

\* C21 witness: the ledger as deployed, before any call
C21_Witness ==
    /\ result = NoCall
    /\ events = << OwnershipTransferred(Deployer) >>
    /\ confessionCount = 0 /\ now = 300

PauseOps == {"togglePause", "emergencyPause", "unpause"}

\* C22: the pause operations called by the owner succeed and change only the
\* paused flag (and the event log): confessions, votes, the upvote relation,
\* lastSubmissionTime, rateLimitCooldown and confessionCount are unchanged;
\* emergencyPause sets paused to true and unpause sets it to false whatever
\* its previous value, togglePause negates it, and a togglePause that follows
\* a togglePause restores the value paused had before the first.
C22_PauseOpsChangeOnlyPaused ==
    [][ /\ (result'.op \in PauseOps /\ result'.caller = owner) =>
              /\ result'.status = "ok"
              /\ UNCHANGED <<confessions, hasUpvoted, lastSubmissionTime,
                             rateLimitCooldown, confessionCount, owner>>
              /\ events' = Append(events, ContractPaused(paused'))
        /\ OkStep({"emergencyPause"}) => paused'
        /\ OkStep({"unpause"}) => ~paused'
        /\ OkStep({"togglePause"}) => paused' = ~paused
        /\ (result.op = "togglePause" /\ result.status = "ok"
              /\ OkStep({"togglePause"})) =>
              paused' = ~events[Len(events)].flag ]_vars

\* C22 witness: on a ledger that holds a confession the owner's emergencyPause
\* has just been repeated
C22_Witness ==
    /\ result.op = "emergencyPause" /\ result.status = "ok"
    /\ confessionCount = 1
    /\ Len(events) = 4
    /\ events[3] = ContractPaused(TRUE) /\ events[4] = ContractPaused(TRUE)
    /\ paused

\* C23: upvote(caller, id) succeeds if and only if the ledger is not paused,
\* confession id exists and (id, caller) is not yet in the upvote relation;
\* nothing else gates it: the author of the confession and every other
\* identity can each upvote it once, whatever their rate-limit state.
C23_UpvoteIff ==
    [][ result'.op = "upvote" =>
           LET id == result'.id
               caller == result'.caller
           IN  /\ result'.status = "ok" <=>
                     /\ ~paused
                     /\ confessions[id].exists
                     /\ ~hasUpvoted[id][caller]
               /\ result'.status = "ok" =>
                     /\ hasUpvoted'[id][caller]
                     /\ confessions'[id].voteCount = confessions[id].voteCount + 1 ]_vars

\* C23 witness: the author, still inside the own cooldown, has just upvoted
\* the own confession after another identity had upvoted it
C23_Witness ==
    /\ result.op = "upvote" /\ result.status = "ok"
    /\ confessions[result.id].author = result.caller
    /\ ~RateLimitElapsed(result.caller)
    /\ confessions[result.id].voteCount = 2

\* C24: when several preconditions fail at once the error follows a fixed
\* order: submitConfession reports Paused before InvalidInput (empty message)
\* before RateLimited; upvote reports Paused before NotFound before
\* AlreadyVoted; updateIPFSCID reports NotFound before Unauthorized;
\* updateRateLimit reports Unauthorized before InvalidInput.
C24_ErrorOrder ==
    [][ LET caller == result'.caller
            id == result'.id
        IN  /\ result'.op = "submitConfession" =>
                  /\ paused => result'.status = "Paused"
                  /\ (~paused /\ result'.val = 0) => result'.status = "InvalidInput"
                  /\ (~paused /\ result'.val > 0 /\ ~RateLimitElapsed(caller)) =>
                        result'.status = "RateLimited"
            /\ result'.op = "upvote" =>
                  /\ paused => result'.status = "Paused"
                  /\ (~paused /\ ~confessions[id].exists) =>
                        result'.status = "NotFound"
                  /\ (~paused /\ confessions[id].exists /\ hasUpvoted[id][caller]) =>
                        result'.status = "AlreadyVoted"
            /\ result'.op = "updateIPFSCID" =>
                  /\ ~confessions[id].exists => result'.status = "NotFound"
                  /\ (confessions[id].exists /\ confessions[id].author # caller) =>
                        result'.status = "Unauthorized"
            /\ result'.op = "updateRateLimit" =>
                  /\ caller # owner => result'.status = "Unauthorized"
                  /\ (caller = owner /\ result'.val > 3600) =>
                        result'.status = "InvalidInput" ]_vars

\* C24 witness: an empty message submitted by a rate-limited caller on a
\* paused ledger has just been rejected with Paused
C24_Witness ==
    /\ result.op = "submitConfession" /\ result.status = "Paused"
    /\ result.val = 0
    /\ ~RateLimitElapsed(result.caller)
    /\ lastSubmissionTime[result.caller] > 0

\* C25: a successful upvote of confession id raises that record's encrypted
\* counter and its voteCount by exactly one and adds the pair (id, caller) to
\* the upvote relation; confessionCount, lastSubmissionTime of every identity,
\* rateLimitCooldown, paused, every other confession record, every other pair
\* of the relation, and the message, createdAt, author, ipfsCID and exists of
\* the upvoted record are unchanged.
C25_UpvoteFrame ==
    [][ OkStep({"upvote"}) =>
           LET id == result'.id
               caller == result'.caller
               old == confessions[id]
               new == confessions'[id]
           IN  /\ Decrypt(new.encryptedVotes) = Decrypt(old.encryptedVotes) + 1
               /\ new.voteCount = old.voteCount + 1
               /\ new.message = old.message /\ new.createdAt = old.createdAt
               /\ new.author = old.author /\ new.ipfsCID = old.ipfsCID
               /\ new.exists = old.exists
               /\ \A i \in Ids \ {id} : confessions'[i] = confessions[i]
               /\ hasUpvoted'[id][caller] /\ ~hasUpvoted[id][caller]
               /\ \A i \in Ids, a \in Addresses :
                     (i # id \/ a # caller) => hasUpvoted'[i][a] = hasUpvoted[i][a]
               /\ UNCHANGED <<confessionCount, lastSubmissionTime,
                              rateLimitCooldown, paused, owner>> ]_vars

\* C25 witness: of two confessions the tagged one has just been upvoted by an
\* identity that has a submission time of its own
C25_Witness ==
    /\ result.op = "upvote" /\ result.status = "ok"
    /\ confessionCount = 2
    /\ confessions[result.id].ipfsCID = 5
    /\ confessions[result.id].voteCount = 1
    /\ lastSubmissionTime[result.caller] > 0

\* the ids of the confessions whose author is a
ConfessionsOf(a) == {i \in 1 .. confessionCount : confessions[i].author = a}

\* lastSubmissionTime[a] is the createdAt of the latest confession of a, and 0
\* when a has none
LastIsLatestCreatedAt ==
    \A a \in Addresses :
        lastSubmissionTime[a] =
            IF ConfessionsOf(a) = {} THEN 0
            ELSE confessions[SetMax(ConfessionsOf(a))].createdAt

\* C26: in every reachable state lastSubmissionTime[a] equals the createdAt of
\* the confession with the highest id whose author is a, and 0 when a has no
\* confession; it is written by successful submitConfession calls of a only,
\* never by upvote, updateIPFSCID or an admin operation.
C26_LastSubmissionTime ==
    /\ LastIsLatestCreatedAt
    /\ [][ /\ LastIsLatestCreatedAt'
           /\ \A a \in Addresses :
                 lastSubmissionTime'[a] # lastSubmissionTime[a] =>
                     /\ OkStep({"submitConfession"})
                     /\ result'.caller = a
                     /\ lastSubmissionTime'[a] = now
           /\ result'.op \notin {"submitConfession"} =>
                 lastSubmissionTime' = lastSubmissionTime ]_vars

\* C26 witness: an identity has two confessions created in different blocks,
\* the other identity has none
C26_Witness ==
    \E a, b \in Addresses :
        /\ ConfessionsOf(a) = {1, 2}
        /\ confessions[1].createdAt < confessions[2].createdAt
        /\ lastSubmissionTime[a] = confessions[2].createdAt
        /\ ConfessionsOf(b) = {} /\ lastSubmissionTime[b] = 0
        /\ result.op # "submitConfession"

\* C27: the rate-limit check uses the cooldown configured at the time of the
\* call, not the one in force when the caller last submitted: a submission
\* made right after the owner's updateRateLimit(s) succeeds exactly when
\* now >= lastSubmissionTime[caller] + s, so lowering the cooldown admits a
\* caller who was rate limited and raising it limits a caller who was
\* eligible; with cooldown 0 the same caller can submit repeatedly at the same
\* timestamp.
C27_CurrentCooldown ==
    [][ /\ OkStep({"updateRateLimit"}) =>
              \A a \in Addresses :
                  (submitConfessionCheck(a, <<7>>))' =
                      IF paused THEN "Paused"
                      ELSE IF now >= lastSubmissionTime[a] + result'.val THEN "ok"
                      ELSE "RateLimited"
        /\ (result.op = "updateRateLimit" /\ result.status = "ok" /\ ~paused
              /\ SubmitBy(result'.caller)) =>
              result'.status =
                  IF now >= lastSubmissionTime[result'.caller] + result.val
                  THEN "ok" ELSE "RateLimited"
        /\ (rateLimitCooldown = 0 /\ ~paused /\ SubmitBy(result'.caller)) =>
              result'.status = "ok" ]_vars

\* C27 witness: a caller has submitted twice at the same timestamp, the second
\* time right after the owner lowered the cooldown from 300 to 0
C27_Witness ==
    /\ result.op = "submitConfession" /\ result.status = "ok"
    /\ Len(events) = 4
    /\ events[2].name = "ConfessionSubmitted"
    /\ events[3] = RateLimitUpdated(0)
    /\ events[4] = ConfessionSubmitted(2, events[2].who, events[2].ts)

\* C28: with a clock that never goes back, createdAt is non-decreasing in id:
\* for all existing ids i < j, confessions[i].createdAt <=
\* confessions[j].createdAt; so the feed, which lists every confession by
\* descending id, lists them newest first.
C28_CreatedAtMonotone ==
    /\ \A i, j \in 1 .. confessionCount :
          i < j => confessions[i].createdAt <= confessions[j].createdAt
    /\ Len(loadConfessions) = confessionCount
    /\ \A k \in 1 .. Len(loadConfessions) - 1 :
          /\ loadConfessions[k].id > loadConfessions[k + 1].id
          /\ loadConfessions[k].timestamp >= loadConfessions[k + 1].timestamp

\* C28 witness: two confessions created in different blocks, the later one
\* first in the feed
C28_Witness ==
    /\ confessionCount = 2
    /\ confessions[1].createdAt < confessions[2].createdAt
    /\ loadConfessions[1].id = 2

\* C29: the create page stores the display name and the category of a
\* submitter under the id of the confession this client has just submitted:
\* whatever other clients submit between the confirmation of the client's
\* transaction and the page's read of confessionCount, the keys
\* customName_<id> and category_<id> it writes carry the id assigned to the
\* client's own confession.
C29_KeysUseOwnId ==
    [][ \A c \in Addresses :
           (createPage[c].tx = "success" /\ createPage'[c].tx = "none") =>
               LET own == events[SetMax(SubmissionsOf(c))].id
               IN  \A i \in Ids :
                       (\/ localStorage'[c].customNameById[i] #
                              localStorage[c].customNameById[i]
                        \/ localStorage'[c].categoryById[i] #
                              localStorage[c].categoryById[i]) => i = own ]_vars

\* C30: a ConfessionCard marks itself as upvoted and increments its displayed
\* vote count only when the upvote it triggered succeeded: when the upvote
\* fails (AlreadyVoted, Paused, a rejected transaction) the card's upvoted flag
\* and displayed count are unchanged and the failure branch ("Failed to
\* upvote") is taken.
C30_CardFollowsOutcome ==
    [][ result'.op = "upvote" =>
           LET old == card[result'.caller][result'.id]
               new == card'[result'.caller][result'.id]
           IN  IF result'.status = "ok"
               THEN /\ new.isUpvoted
                    /\ new.localVoteCount = old.localVoteCount + 1
                    /\ new.toast = "Upvoted!"
               ELSE /\ new.isUpvoted = old.isUpvoted
                    /\ new.localVoteCount = old.localVoteCount
                    /\ new.toast = "Failed to upvote" ]_vars

====
